---- MODULE Spec2Model ----
(***************************************************************************)
(* A model of the Shortcuts MCP server: the grocery price comparison       *)
(* pipeline (grocery.py), the four shell/LLM tools (calendar.py, notes.py, *)
(* shortcuts.py, recipe.py) and the server start-up (app.py, server.py,    *)
(* tools/__init__.py).                                                     *)
(*                                                                         *)
(* Text is a sequence of one-character strings.  Money is an integer       *)
(* number of mills (1/1000 dollar), so that round(x, 2) really rounds.     *)
(* A decimal literal read by float() is the exact fraction num/den.        *)
(* Sums and products are exact; IEEE-754 error is not modelled.            *)
(***************************************************************************)
EXTENDS Integers, Sequences, FiniteSets, TLC

(***************************************************************************)
(* Text helpers: the character classes and string methods the code uses.   *)
(***************************************************************************)
Digits == {"0", "1", "2", "3", "4", "5", "6", "7", "8", "9"}

Spaces == {" "}

DigitVal(c) ==
    CASE c = "0" -> 0 [] c = "1" -> 1 [] c = "2" -> 2 [] c = "3" -> 3
      [] c = "4" -> 4 [] c = "5" -> 5 [] c = "6" -> 6 [] c = "7" -> 7
      [] c = "8" -> 8 [] c = "9" -> 9

\* str.lower() on one character (the letters the unit tokens use)
Lower(c) ==
    CASE c = "K" -> "k" [] c = "G" -> "g" [] c = "L" -> "l"
      [] OTHER -> c

LowerStr(s) == [i \in 1..Len(s) |-> Lower(s[i])]

\* the last index j >= i-1 such that s[i..j] lies in the class cls (a greedy star)
RunEnd(s, i, cls) ==
    CHOOSE j \in (i - 1)..Len(s) :
        /\ \A k \in i..j : s[k] \in cls
        /\ (j = Len(s) \/ s[j + 1] \notin cls)

\* str.strip()
Strip(s) ==
    IF \A k \in 1..Len(s) : s[k] \in Spaces THEN << >>
    ELSE LET a == RunEnd(s, 1, Spaces) + 1
             b == CHOOSE j \in 1..Len(s) :
                      /\ s[j] \notin Spaces
                      /\ \A k \in (j + 1)..Len(s) : s[k] \in Spaces
         IN  SubSeq(s, a, b)

\* whether text t occurs in s starting at index i
HasAt(s, i, t) ==
    /\ i >= 1
    /\ i + Len(t) - 1 <= Len(s)
    /\ \A k \in 1..Len(t) : s[i + k - 1] = t[k]

RECURSIVE DigitsValue(_)
DigitsValue(ds) ==
    IF ds = << >> THEN 0
    ELSE 10 * DigitsValue(SubSeq(ds, 1, Len(ds) - 1)) + DigitVal(ds[Len(ds)])

RECURSIVE Pow10(_)
Pow10(n) == IF n = 0 THEN 1 ELSE 10 * Pow10(n - 1)

\* float() of a literal "int" "." "frac" as the exact fraction num/den
Decimal(intPart, fracPart) ==
    [num |-> DigitsValue(intPart \o fracPart), den |-> Pow10(Len(fracPart))]

NoNumber == [num |-> 0, den |-> 1]

\* round-half-even of n/d to an integer (n >= 0, d > 0): Python's round()
RoundHalfEven(n, d) ==
    LET q == n \div d
        r == n % d
    IN  IF 2 * r < d THEN q
        ELSE IF 2 * r > d THEN q + 1
        ELSE IF q % 2 = 0 THEN q ELSE q + 1

\* round(x, 2) of an amount of mills, in mills (negative amounts mirror)
Round2(mills) ==
    IF mills >= 0 THEN 10 * RoundHalfEven(mills, 10)
    ELSE 0 - 10 * RoundHalfEven(0 - mills, 10)

\* a decimal fraction of dollars as mills (exact for at most three decimals)
ToMills(f) == (f.num * 1000) \div f.den

\* ------------------------------------------------------------------------
\* GroceryTool._parse_item_with_weight: the stripped input matched against
\*   ^(.+?)\s+(\d+(?:\.\d+)?)\s*(g|kg)$    with re.IGNORECASE
\* The tail after group 1 is matched left to right, one operator per piece
\* of the pattern; every piece is greedy and none can give a character back
\* to the piece after it.
\* ------------------------------------------------------------------------
\* (g|kg)$ : rest is the lower-cased text left after the number and \s*
TailUnit(s, i, sp, d1, d2, rest) ==
    [ok |-> sp >= i /\ d1 >= sp + 1 /\ rest \in {<<"g">>, <<"k", "g">>},
     weight |-> Decimal(SubSeq(s, sp + 1, d1),
                        IF d2 > d1 THEN SubSeq(s, d1 + 2, d2) ELSE << >>),
     unit |-> IF rest = <<"g">> THEN "g" ELSE "kg"]

\* the tail without re.IGNORECASE: the unit is compared as it is written
TailAfterNumber_case_sensitive(s, i, sp, d1, d2) ==
    TailUnit(s, i, sp, d1, d2,
             SubSeq(s, RunEnd(s, d2 + 1, Spaces) + 1, Len(s)))

\* \s* : after the number, which ends at d2
TailAfterNumber(s, i, sp, d1, d2) ==
    TailUnit(s, i, sp, d1, d2,
             LowerStr(SubSeq(s, RunEnd(s, d2 + 1, Spaces) + 1, Len(s))))

\* (?:\.\d+)? : after the integer digits, which end at d1
TailAfterInt(s, i, sp, d1) ==
    TailAfterNumber(s, i, sp, d1,
        IF d1 + 2 <= Len(s) /\ s[d1 + 1] = "." /\ s[d1 + 2] \in Digits
        THEN RunEnd(s, d1 + 2, Digits) ELSE d1)

\* \d+ : after the white space, which ends at sp
TailAfterSpaces(s, i, sp) == TailAfterInt(s, i, sp, RunEnd(s, sp + 1, Digits))

\* \s+(\d+(?:\.\d+)?)\s*(g|kg)$ matched against s from index i
WeightTail(s, i) == TailAfterSpaces(s, i, RunEnd(s, i, Spaces))

NoWeight == [has |-> FALSE, num |-> 0, den |-> 1]

\* the groups of a match whose group 1 is s[1..i]
ParseGroups(s, i, m) ==
    [item_name |-> Strip(SubSeq(s, 1, i)),
     weight |-> [has |-> TRUE, num |-> m.weight.num, den |-> m.weight.den],
     unit |-> m.unit]

\* group 1 is lazy: the shortest non-empty prefix the tail follows
ParseCuts(s, cuts) ==
    IF cuts # {}
    THEN LET i == CHOOSE c \in cuts : \A c2 \in cuts : c <= c2
         IN  ParseGroups(s, i, WeightTail(s, i + 1))
    ELSE [item_name |-> s, weight |-> NoWeight, unit |-> "none"]

ParseStripped(s) == ParseCuts(s, {i \in 1..Len(s) : WeightTail(s, i + 1).ok})

parse_item_with_weight(item_string) == ParseStripped(Strip(item_string))

\* Python truthiness of requested_weight: None and 0.0 are both false
Truthy(weight) == weight.has /\ weight.num # 0

\* ------------------------------------------------------------------------
\* The per-kilogram patterns of the two normalizers
\*   Coles:       \$(\d+\.?\d*)\s*per\s*1?kg
\*   Woolworths:  \$(\d+\.?\d*)\s*/\s*1?kg      with re.IGNORECASE
\* ------------------------------------------------------------------------
\* the group (\d+\.?\d*) : integer digits end at d1, the group ends at d2
PriceGroup(s, i, d1, d2) ==
    [ok |-> i <= Len(s) /\ s[i] = "$" /\ d1 >= i + 1,
     end |-> d2,
     value |-> Decimal(SubSeq(s, i + 1, d1),
                       IF d2 > d1 THEN SubSeq(s, d1 + 2, d2) ELSE << >>)]

PriceAfterInt(s, i, d1) ==
    PriceGroup(s, i, d1,
               IF d1 + 1 <= Len(s) /\ s[d1 + 1] = "."
               THEN RunEnd(s, d1 + 2, Digits) ELSE d1)

\* \$(\d+\.?\d*) matched at index i of s: the group's end and its value
PriceAt(s, i) == PriceAfterInt(s, i, RunEnd(s, i + 1, Digits))

\* 1?kg at index b of t.  1? is greedy; dropping the "1" again can never
\* let "kg" match
PerKgUnit(t, sep, p, a, b) ==
    /\ p.ok
    /\ HasAt(t, a, sep)
    /\ HasAt(t, IF b <= Len(t) /\ t[b] = "1" THEN b + 1 ELSE b, <<"k", "g">>)

\* the separator at index a, then \s*
PerKgAfterSpaces(t, sep, p, a) ==
    PerKgUnit(t, sep, p, a, RunEnd(t, a + Len(sep), Spaces) + 1)

\* \s* after the price group p
PerKgAfterPrice(t, sep, p) ==
    PerKgAfterSpaces(t, sep, p, RunEnd(t, p.end + 1, Spaces) + 1)

\* the whole pattern matched at index i; sep is "per" or "/"
PerKgAt(s, i, sep, ignoreCase) ==
    PerKgAfterPrice(IF ignoreCase THEN LowerStr(s) ELSE s, sep, PriceAt(s, i))

\* re.search: the match at the leftmost index of hits, group 1 as a number
FirstHit(s, hits) ==
    IF hits = {} THEN [found |-> FALSE, value |-> NoNumber]
    ELSE [found |-> TRUE,
          value |-> PriceAt(s, CHOOSE i \in hits : \A j \in hits : i <= j).value]

PerKgSearch(s, sep, ignoreCase) ==
    FirstHit(s, {i \in 1..Len(s) : PerKgAt(s, i, sep, ignoreCase)})

\* re.search(r'\$(\d+\.?\d*)', comparable) of _search_coles
PriceSearch(s) == FirstHit(s, {i \in 1..Len(s) : PriceAt(s, i).ok})

\* ------------------------------------------------------------------------
\* JSON values and the dictionaries the pipeline passes around
\* ------------------------------------------------------------------------
\* a JSON price field: a number (in mills), a non-number, or null/absent
Num(m) == [t |-> "num", v |-> m]

NotANumber == [t |-> "str", v |-> 0]

Null == [t |-> "null", v |-> 0]

\* the dict a search returns and a normalizer extends.  is_weighted is "True",
\* "False" or "absent" (the key is not in the dict); unit_kind is "str", or
\* "null" when the unit is None; note is "none" (no such key), "fixed"
\* ("Fixed package price ...") or "could_not" ("Could not calculate ...");
\* calculated_for tells whether that key and original_per_kg_price are set.
Quote(desc, price, unit, unitKind, weighted) ==
    [description |-> desc, price |-> price, unit |-> unit,
     unit_kind |-> unitKind, is_weighted |-> weighted,
     note |-> "none", calculated_for |-> FALSE,
     original_per_kg_price |-> NoNumber, error |-> "none"]

\* Optional[Dict]: None is [some |-> FALSE]
None == [some |-> FALSE, q |-> Quote("", Null, << >>, "str", "absent")]

Some(q) == [some |-> TRUE, q |-> q]

GramUnits == {"g", "gram", "grams"}

KiloUnits == {"kg", "kilo", "kilos", "kilogram"}

\* weight_in_kg as an exact fraction
WeightInKg(requested_weight, requested_unit) ==
    IF requested_unit \in GramUnits
    THEN [num |-> requested_weight.num, den |-> requested_weight.den * 1000]
    ELSE IF requested_unit \in KiloUnits
    THEN [num |-> requested_weight.num, den |-> requested_weight.den]
    ELSE [num |-> requested_weight.num, den |-> requested_weight.den * 1000]

\* round(per_kg_price * weight_in_kg, 2), in mills
CalculatedPrice(per_kg_price, weight_in_kg) ==
    10 * RoundHalfEven(per_kg_price.num * weight_in_kg.num * 100,
                       per_kg_price.den * weight_in_kg.den)

\* what both normalizers do with the outcome of their pattern search
Normalized(product_data, per_kg_match, requested_weight, requested_unit) ==
    IF per_kg_match.found
    THEN [product_data EXCEPT
            !.price = Num(CalculatedPrice(per_kg_match.value,
                              WeightInKg(requested_weight, requested_unit))),
            !.calculated_for = TRUE,
            !.original_per_kg_price = per_kg_match.value]
    ELSE [product_data EXCEPT !.note = "could_not"]

\* GroceryTool._calculate_price_for_weight (Coles)
calculate_price_for_weight(product_data, requested_weight, requested_unit) ==
    IF product_data.is_weighted # "True"
    THEN [product_data EXCEPT !.note = "fixed"]
    ELSE Normalized(product_data,
                    PerKgSearch(product_data.unit, <<"p", "e", "r">>, FALSE),
                    requested_weight, requested_unit)

\* GroceryTool._calculate_woolworths_price_for_weight; re.search on a unit
\* that is None raises TypeError
calculate_woolworths_price_for_weight(product_data, requested_weight, requested_unit) ==
    IF product_data.unit_kind # "str"
    THEN [product_data EXCEPT !.error = "TypeError"]
    ELSE Normalized(product_data,
                    PerKgSearch(product_data.unit, <<"/">>, TRUE),
                    requested_weight, requested_unit)

\* ------------------------------------------------------------------------
\* The retailer clients.  A response is what the retailer answered: status
\* "error" is any exception inside the try block (connection error,
\* raise_for_status, a body that is not the expected JSON).
\* ------------------------------------------------------------------------
\* one entry of pageProps.searchResults.results
ColesEntry(type, desc, weighted, comparable, now) ==
    [type |-> type, description |-> desc, isWeighted |-> weighted,
     comparable |-> comparable, now |-> now]

\* the body of the for loop of _search_coles for one entry: the dict it
\* returns, or None when the loop goes on to the next entry
ColesEntryMatched(item, price_match) ==
    IF item.type # "PRODUCT" THEN None
    ELSE IF item.comparable # << >> /\ item.isWeighted /\ price_match.found
    THEN Some(Quote(item.description, Num(ToMills(price_match.value)),
                    item.comparable, "str", "True"))
    ELSE IF item.now.t # "null"
    THEN Some(Quote(item.description, item.now, item.comparable, "str",
                    IF item.isWeighted THEN "True" ELSE "False"))
    ELSE None

ColesEntryQuote(item) == ColesEntryMatched(item, PriceSearch(item.comparable))

\* the for loop over the result entries: the first entry that returns
RECURSIVE ColesScan(_)
ColesScanFrom(found, rest) == IF found.some THEN found ELSE ColesScan(rest)

ColesScan(results) ==
    IF results = << >> THEN None
    ELSE ColesScanFrom(ColesEntryQuote(Head(results)), Tail(results))

\* GroceryTool._search_coles
search_coles(response) ==
    IF response.status = "error" THEN None ELSE ColesScan(response.results)

\* one product of a Woolworths section.  Name "" is an empty or missing
\* name; DisplayName "<absent>" is a missing key (the default "Unknown"
\* applies); cup_kind is "str", "null" (JSON null) or "absent" (default "").
WoolProduct(name, displayName, price, cup, cupKind) ==
    [Name |-> name, DisplayName |-> displayName, Price |-> price,
     CupString |-> cup, cup_kind |-> cupKind]

\* product.get("Name") or product.get("DisplayName", "Unknown")
WoolName(product) ==
    IF product.Name # "" THEN product.Name
    ELSE IF product.DisplayName = "<absent>" THEN "Unknown"
    ELSE product.DisplayName

WoolNamedQuote(product, name) ==
    IF name # "" /\ product.Price.t # "null"
    THEN Some(Quote(name, product.Price,
                    IF product.cup_kind = "str" THEN product.CupString
                    ELSE << >>,
                    IF product.cup_kind = "null" THEN "null" ELSE "str",
                    "absent"))
    ELSE None

\* the body of the inner for loop of _search_woolworths for one product
WoolProductQuote(product) == WoolNamedQuote(product, WoolName(product))

\* the inner loop over one section's products
RECURSIVE WoolScanProducts(_)
WoolScanProductsFrom(found, rest) ==
    IF found.some THEN found ELSE WoolScanProducts(rest)

WoolScanProducts(products) ==
    IF products = << >> THEN None
    ELSE WoolScanProductsFrom(WoolProductQuote(Head(products)),
                              Tail(products))

\* the outer loop over the sections
RECURSIVE WoolScanSections(_)
WoolScanSectionsFrom(found, rest) ==
    IF found.some THEN found ELSE WoolScanSections(rest)

WoolScanSections(sections) ==
    IF sections = << >> THEN None
    ELSE WoolScanSectionsFrom(WoolScanProducts(Head(sections)),
                              Tail(sections))

\* GroceryTool._search_woolworths
search_woolworths(response) ==
    IF response.status = "error" THEN None
    ELSE WoolScanSections(response.sections)

\* ------------------------------------------------------------------------
\* Inputs: the item strings a caller passes and the answers the retailers
\* give.  Each is a concrete JSON shape the handlers branch on.
\* ------------------------------------------------------------------------
MaxItems == 2

Item_ab500g == <<"a", "b", " ", "5", "0", "0", "g">>

Item_cd == <<" ", "c", "d", " ">>

ItemStrings == {Item_ab500g, Item_cd}

ItemLists == UNION {[1..n -> ItemStrings] : n \in 0..MaxItems}

Label_per1kg == <<"$", "1", "1", ".", "5", "0", " ", "p", "e", "r", " ",
                  "1", "k", "g">>

Label_slash1KG == <<"$", "1", "1", ".", "5", "0", " ", "/", " ", "1", "K",
                    "G">>

BuildIds == {"b1", "b2"}

\* outcomes of the landing-page fetch of _get_coles_build_id
FetchFailures == {"ConnectionError", "HTTPError", "no __NEXT_DATA__",
                  "no buildId"}

FetchOutcomes == {"ok"} \cup FetchFailures

ColesError == [status |-> "error", results |-> << >>]

ColesOk(results) == [status |-> "ok", results |-> results]

ColesResponses ==
    {ColesError,
     \* a weighted product priced per kilogram
     ColesOk(<<ColesEntry("PRODUCT", "loose", TRUE, Label_per1kg,
                          Num(3000))>>),
     \* an advertisement tile, then a packaged product
     ColesOk(<<ColesEntry("TILE", "ad", FALSE, << >>, Null),
               ColesEntry("PRODUCT", "pack", FALSE, << >>, Num(2500))>>),
     \* a price that is not a number
     ColesOk(<<ColesEntry("PRODUCT", "odd", FALSE, << >>, NotANumber)>>),
     \* a price below one cent
     ColesOk(<<ColesEntry("PRODUCT", "tiny", FALSE, << >>, Num(4))>>)}

WoolError == [status |-> "error", sections |-> << >>]

WoolOk(sections) == [status |-> "ok", sections |-> sections]

WoolResponses ==
    {WoolError,
     \* a product with a per-kilogram cup string
     WoolOk(<<<<WoolProduct("bag", "<absent>", Num(2500), Label_slash1KG,
                            "str")>>>>),
     \* an empty section, then a product without a cup string
     WoolOk(<< << >>, <<WoolProduct("", "<absent>", Num(11500), << >>,
                                    "absent")>> >>),
     \* a price that is not a number
     WoolOk(<<<<WoolProduct("odd", "odd", NotANumber, << >>, "str")>>>>)}

\* ------------------------------------------------------------------------
\* The rows and summary of compare_grocery_prices
\* ------------------------------------------------------------------------
\* the normalization step of the loop body: the dict whose price is added
ColesProcessed(coles_result, parsed) ==
    IF Truthy(parsed.weight) /\ parsed.unit # "none"
    THEN calculate_price_for_weight(coles_result, parsed.weight, parsed.unit)
    ELSE coles_result

WooliesProcessed(woolies_result, parsed) ==
    IF Truthy(parsed.weight) /\ parsed.unit # "none"
    THEN calculate_woolworths_price_for_weight(woolies_result, parsed.weight,
                                               parsed.unit)
    ELSE woolies_result

\* item_comparison["coles"]: is_weighted defaults to False
ColesCell(processed) ==
    Some([processed EXCEPT
            !.is_weighted = IF processed.is_weighted = "absent" THEN "False"
                            ELSE processed.is_weighted])

\* item_comparison["woolworths"]: the dict carries no is_weighted key
WooliesCell(processed) == Some([processed EXCEPT !.is_weighted = "absent"])

\* requested_amount: the weight and unit the f-string shows, or None
RequestedAmount(parsed) ==
    IF Truthy(parsed.weight)
    THEN [set |-> TRUE, weight |-> parsed.weight, unit |-> parsed.unit]
    ELSE [set |-> FALSE, weight |-> NoWeight, unit |-> "none"]

\* the loop body adding the price the search returned, not the normalized one
LoopBodyAdd_unscaled(item, parsed, coles_result, woolies_result, cp, wp, colesRaises, wooliesRaises, ctotal, wtotal) ==
    [raised |-> colesRaises \/ wooliesRaises,
     parsed |-> parsed,
     coles_result |-> coles_result,
     row |-> [item |-> item,
              item_name |-> parsed.item_name,
              requested_amount |-> RequestedAmount(parsed),
              coles |-> IF coles_result.some THEN ColesCell(cp) ELSE None,
              woolworths |-> IF woolies_result.some THEN WooliesCell(wp)
                             ELSE None],
     coles_total |-> IF coles_result.some /\ ~colesRaises
                     THEN ctotal + coles_result.q.price.v ELSE ctotal,
     woolies_total |-> IF woolies_result.some /\ ~wooliesRaises
                       THEN wtotal + woolies_result.q.price.v ELSE wtotal]

\* the rest of the loop body once both dicts are normalized: the row, and
\* the totals.  raised tells whether the pass raises TypeError: adding a
\* price that is not a number to a total, or searching a unit that is None.
LoopBodyAdd(item, parsed, coles_result, woolies_result, cp, wp, colesRaises, wooliesRaises, ctotal, wtotal) ==
    [raised |-> colesRaises \/ wooliesRaises,
     parsed |-> parsed,
     coles_result |-> coles_result,
     row |-> [item |-> item,
              item_name |-> parsed.item_name,
              requested_amount |-> RequestedAmount(parsed),
              coles |-> IF coles_result.some THEN ColesCell(cp) ELSE None,
              woolworths |-> IF woolies_result.some THEN WooliesCell(wp)
                             ELSE None],
     coles_total |-> IF coles_result.some /\ ~colesRaises
                     THEN ctotal + cp.price.v ELSE ctotal,
     woolies_total |-> IF woolies_result.some /\ ~wooliesRaises
                       THEN wtotal + wp.price.v ELSE wtotal]

LoopBodyProcessed(item, parsed, coles_result, woolies_result, cp, wp, ctotal, wtotal) ==
    LoopBodyAdd(item, parsed, coles_result, woolies_result, cp, wp,
                coles_result.some /\ cp.price.t # "num",
                woolies_result.some
                    /\ (wp.error # "none" \/ wp.price.t # "num"),
                ctotal, wtotal)

LoopBodyParsed(item, parsed, coles_result, woolies_result, ctotal, wtotal) ==
    LoopBodyProcessed(item, parsed, coles_result, woolies_result,
                      ColesProcessed(coles_result.q, parsed),
                      WooliesProcessed(woolies_result.q, parsed),
                      ctotal, wtotal)

\* one pass of the loop body over the two search results already fetched
LoopBody(item, coles_result, woolies_result, ctotal, wtotal) ==
    LoopBodyParsed(item, parse_item_with_weight(item), coles_result,
                   woolies_result, ctotal, wtotal)

Abs(n) == IF n >= 0 THEN n ELSE 0 - n

\* summary["cheaper_store"]
CheaperStore(coles_total, woolies_total) ==
    IF coles_total < woolies_total THEN "Coles" ELSE "Woolworths"

\* the summary with the verdict decided on the rounded totals
Summary_rounded(coles_total, woolies_total) ==
    LET both == Round2(coles_total) > 0 /\ Round2(woolies_total) > 0
    IN  [coles_total |-> Round2(coles_total),
         woolworths_total |-> Round2(woolies_total),
         cheaper_store |-> IF both
                           THEN CheaperStore(coles_total, woolies_total)
                           ELSE "None",
         savings |-> IF both THEN Round2(Abs(coles_total - woolies_total))
                     ELSE 0]

\* the summary dict: cheaper_store "None" is the absent verdict
Summary(coles_total, woolies_total) ==
    LET both == coles_total > 0 /\ woolies_total > 0
    IN  [coles_total |-> Round2(coles_total),
         woolworths_total |-> Round2(woolies_total),
         cheaper_store |-> IF both
                           THEN CheaperStore(coles_total, woolies_total)
                           ELSE "None",
         savings |-> IF both THEN Round2(Abs(coles_total - woolies_total))
                     ELSE 0]

NoSummary == [coles_total |-> 0, woolworths_total |-> 0,
              cheaper_store |-> "None", savings |-> 0]

\* ------------------------------------------------------------------------
\* Server start-up: shortcuts_mcp/__init__.py imports app.py, whose first
\* import of a tools submodule runs tools/__init__.py.
\* ------------------------------------------------------------------------
\* the modules tools/__init__.py imports, in order
ToolsPackageImports == <<"recipe", "shortcuts", "notes", "calendar_tool",
                         "grocery">>

\* the modules the tools directory of the source tree holds
SourceModules == {"recipe", "shortcuts", "notes", "calendar", "grocery"}

\* ShortcutsMCPServer._register_tools: the tools it constructs, in order
RegisterOrder == <<"RecipeTool", "ShortcutsTool", "NotesTool",
                   "CalendarTool">>

\* register_with_mcp of each tool class: the method handed to mcp.tool()
ToolMethod(tool) ==
    CASE tool = "RecipeTool" -> "get_recipe"
      [] tool = "ShortcutsTool" -> "create_list"
      [] tool = "NotesTool" -> "create_note"
      [] tool = "CalendarTool" -> "create_event"
      [] tool = "GroceryTool" -> "compare_grocery_prices"

\* ------------------------------------------------------------------------
\* State
\* ------------------------------------------------------------------------
VARIABLES
    installed,        \* the modules importable from the tools package
    serverPc,         \* "start", "registering", "running", "ImportError"
    tools,            \* BaseMCPServer.tools
    registered,       \* the method names registered with FastMCP
    api_key,          \* RecipeTool.api_key is set (GEMINI_API_KEY)
    buildIdCache,     \* the @cache entry of _get_coles_build_id, or "none"
    upstreamBuildId,  \* the buildId the Coles landing page embeds now
    pc,               \* "idle", or "loop" inside compare_grocery_prices
    items,            \* compare_grocery_prices: its argument
    build_id,         \*   its local build_id
    fetch,            \*   how its landing-page fetch ended ("none": no fetch)
    comparison_results, \* its local comparison_results
    coles_total,      \*   its local coles_total (mills)
    woolies_total,    \*   its local woolies_total (mills)
    searches,         \* retailer searches issued by the running invocation
    parsed,           \*   its locals item_name, requested_weight, weight_unit
    data,             \* _search_coles: the response its latest call read
    coles_result,     \*   and the dict (or None) that call returned
    ret               \* what the most recent tool call returned

vars == <<installed, serverPc, tools, registered, api_key, buildIdCache,
          upstreamBuildId, pc, items, build_id, fetch, comparison_results,
          coles_total, woolies_total, searches, parsed, data, coles_result,
          ret>>

serverVars == <<installed, serverPc, tools, registered, api_key>>

locals == <<items, build_id, fetch, comparison_results, coles_total,
            woolies_total, searches, parsed, data, coles_result>>

\* the value a tool call returned.  kind is "mapping", "string", "raised"
\* (the call raised instead of returning) or "none" (no call yet); keys are
\* the keys of a mapping; text is the string get_recipe returned; env is what
\* the tool's collaborator did during the call.
Ret(tool, kind, keys, status, text, env) ==
    [tool |-> tool, kind |-> kind, keys |-> keys, status |-> status,
     text |-> text, env |-> env, results |-> << >>, summary |-> NoSummary,
     items_compared |-> 0, searches |-> 0, search_errors |-> 0]

NoRet == Ret("none", "none", {}, "none", "", "none")

\* before the first pass of the loop nothing is parsed and nothing is read
NotParsed == [item_name |-> << >>, weight |-> NoWeight, unit |-> "none"]

NoData == [status |-> "none", results |-> << >>]

IsFailure(r) ==
    \/ r.kind = "mapping" /\ r.status = "failed"
    \/ r.kind = "string" /\ r.text # "json"

Init ==
    /\ installed \in {SourceModules, SourceModules \cup {"calendar_tool"}}
    /\ serverPc = "start"
    /\ tools = << >>
    /\ registered = {}
    /\ api_key = FALSE
    /\ buildIdCache = "none"
    /\ upstreamBuildId = "b1"
    /\ pc = "idle"
    /\ items = << >>
    /\ build_id = "none"
    /\ fetch = "none"
    /\ comparison_results = << >>
    /\ coles_total = 0
    /\ woolies_total = 0
    /\ searches = [issued |-> 0, errors |-> 0]
    /\ parsed = NotParsed
    /\ data = NoData
    /\ coles_result = None
    /\ ret = NoRet

toolVars == <<buildIdCache, upstreamBuildId, pc, items, build_id, fetch,
              comparison_results, coles_total, woolies_total, searches,
              parsed, data, coles_result, ret>>

\* importing the package: tools/__init__.py raises ModuleNotFoundError at
\* the first module that is not there
ImportPackage ==
    /\ serverPc = "start"
    /\ serverPc' = IF \A k \in 1..Len(ToolsPackageImports) :
                          ToolsPackageImports[k] \in installed
                   THEN "registering" ELSE "ImportError"
    /\ UNCHANGED <<installed, tools, registered, api_key, toolVars>>

\* BaseMCPServer.register_tool for the next tool of _register_tools;
\* RecipeTool.__init__ reads GEMINI_API_KEY from the environment
RegisterTool ==
    /\ serverPc = "registering"
    /\ Len(tools) < Len(RegisterOrder)
    /\ LET tool == RegisterOrder[Len(tools) + 1]
       IN  /\ tools' = Append(tools, tool)
           /\ registered' = registered \cup {ToolMethod(tool)}
           /\ IF tool = "RecipeTool" THEN api_key' \in BOOLEAN
              ELSE api_key' = api_key
    /\ UNCHANGED <<installed, serverPc, toolVars>>

\* main(): server.run once __init__ has returned
Run ==
    /\ serverPc = "registering"
    /\ Len(tools) = Len(RegisterOrder)
    /\ serverPc' = "running"
    /\ UNCHANGED <<installed, tools, registered, api_key, toolVars>>

\* ------------------------------------------------------------------------
\* The shell tools and the recipe tool: what one call returns
\* ------------------------------------------------------------------------
\* subprocess.run: the exit status of the shell, or an exception
ShellOutcomes == {"returncode 0", "returncode nonzero", "exception"}

\* the shared body without its except clause: the exception of
\* subprocess.run reaches the host
ShellCall_uncaught(tool, outcome, successKeys) ==
    IF outcome = "exception"
    THEN Ret(tool, "raised", {}, "none", "", outcome)
    ELSE IF outcome = "returncode nonzero"
    THEN Ret(tool, "mapping", {"status", "message"}, "failed", "", outcome)
    ELSE Ret(tool, "mapping", successKeys, "success", "", outcome)

\* the body shared by create_event, create_note and create_list
ShellCall(tool, outcome, successKeys) ==
    IF outcome = "exception"
    THEN Ret(tool, "mapping", {"status", "message"}, "failed", "", outcome)
    ELSE IF outcome = "returncode nonzero"
    THEN Ret(tool, "mapping", {"status", "message"}, "failed", "", outcome)
    ELSE Ret(tool, "mapping", successKeys, "success", "", outcome)

\* CalendarTool.create_event
create_event(outcome) == ShellCall("create_event", outcome, {"status"})

\* NotesTool.create_note
create_note(outcome) == ShellCall("create_note", outcome, {"status"})

\* ShortcutsTool.create_list
create_list(outcome) ==
    ShellCall("create_list", outcome, {"status", "ingredients_added"})

\* generate_content returns a response or raises
LlmOutcomes == {"response", "exception"}

\* RecipeTool.get_recipe: the string it returns ("json" is response.text)
get_recipe(key, outcome) ==
    IF ~key
    THEN Ret("get_recipe", "string", {}, "none",
             "Error: GEMINI_API_KEY environment variable not set",
             "no credential")
    ELSE IF outcome = "exception"
    THEN Ret("get_recipe", "string", {}, "none", "Error processing recipe",
             outcome)
    ELSE Ret("get_recipe", "string", {}, "none", "json", outcome)

\* _get_coles_build_id with the failure swallowed: the caller gets None for
\* a build identifier and goes on
get_coles_build_id_swallowed(cache, outcome, upstream) ==
    IF cache # "none"
    THEN [raised |-> FALSE, value |-> cache, cache |-> cache,
          fetch |-> "none"]
    ELSE IF outcome = "ok"
    THEN [raised |-> FALSE, value |-> upstream, cache |-> upstream,
          fetch |-> outcome]
    ELSE [raised |-> FALSE, value |-> "none", cache |-> cache,
          fetch |-> outcome]

\* _get_coles_build_id without functools.cache: every call fetches the page
get_coles_build_id_uncached(cache, outcome, upstream) ==
    IF outcome = "ok"
    THEN [raised |-> FALSE, value |-> upstream, cache |-> upstream,
          fetch |-> outcome]
    ELSE [raised |-> TRUE, value |-> "none", cache |-> cache,
          fetch |-> outcome]

\* GroceryTool._get_coles_build_id under functools.cache: a cached value is
\* returned without a fetch; an exception is not cached.  outcome is how
\* the fetch ends if one is issued.
get_coles_build_id(cache, outcome, upstream) ==
    IF cache # "none"
    THEN [raised |-> FALSE, value |-> cache, cache |-> cache,
          fetch |-> "none"]
    ELSE IF outcome = "ok"
    THEN [raised |-> FALSE, value |-> upstream, cache |-> upstream,
          fetch |-> outcome]
    ELSE [raised |-> TRUE, value |-> "none", cache |-> cache,
          fetch |-> outcome]

\* what went wrong for the tool's collaborators during an invocation
CompareEnv(fetched, typeError) ==
    IF fetched \in FetchFailures THEN fetched
    ELSE IF typeError THEN "TypeError" ELSE "ok"

\* the except branch of compare_grocery_prices
CompareFailed(env, s) ==
    [Ret("compare_grocery_prices", "mapping", {"status", "message"},
         "failed", "", env)
        EXCEPT !.searches = s.issued, !.search_errors = s.errors]

\* the return statement of compare_grocery_prices
CompareSucceeded(its, rows, ctotal, wtotal, env, s) ==
    [Ret("compare_grocery_prices", "mapping",
         {"status", "items_compared", "results", "summary"}, "success", "",
         env)
        EXCEPT !.items_compared = Len(its), !.results = rows,
               !.summary = Summary(ctotal, wtotal),
               !.searches = s.issued, !.search_errors = s.errors]

\* a tool can be called once the server runs and no call is in progress
Callable == serverPc = "running" /\ pc = "idle"

CreateEvent ==
    /\ Callable
    /\ \E outcome \in ShellOutcomes : ret' = create_event(outcome)
    /\ UNCHANGED <<serverVars, buildIdCache, upstreamBuildId, pc, locals>>

CreateNote ==
    /\ Callable
    /\ \E outcome \in ShellOutcomes : ret' = create_note(outcome)
    /\ UNCHANGED <<serverVars, buildIdCache, upstreamBuildId, pc, locals>>

CreateList ==
    /\ Callable
    /\ \E outcome \in ShellOutcomes : ret' = create_list(outcome)
    /\ UNCHANGED <<serverVars, buildIdCache, upstreamBuildId, pc, locals>>

GetRecipe ==
    /\ Callable
    /\ \E outcome \in LlmOutcomes : ret' = get_recipe(api_key, outcome)
    /\ UNCHANGED <<serverVars, buildIdCache, upstreamBuildId, pc, locals>>

NoSearches == [issued |-> 0, errors |-> 0]

\* while compare_grocery_prices runs nothing has been returned yet
Pending == Ret("compare_grocery_prices", "pending", {}, "none", "", "none")

\* the first statement of compare_grocery_prices, given what
\* _get_coles_build_id did
CompareEnter(its, b) ==
    /\ buildIdCache' = b.cache
    /\ IF b.raised
       THEN /\ ret' = CompareFailed(CompareEnv(b.fetch, FALSE), NoSearches)
            /\ UNCHANGED <<pc, locals>>
       ELSE /\ pc' = "loop"
            /\ items' = its
            /\ build_id' = b.value
            /\ fetch' = b.fetch
            /\ comparison_results' = << >>
            /\ coles_total' = 0
            /\ woolies_total' = 0
            /\ searches' = NoSearches
            /\ parsed' = NotParsed
            /\ data' = NoData
            /\ coles_result' = None
            /\ ret' = Pending

\* compare_grocery_prices up to the loop: the build identifier
CompareStart ==
    /\ Callable
    /\ \E its \in ItemLists, outcome \in FetchOutcomes :
         /\ buildIdCache # "none" => outcome = "ok"
         /\ CompareEnter(its, get_coles_build_id(buildIdCache, outcome,
                                                 upstreamBuildId))
    /\ UNCHANGED <<serverVars, upstreamBuildId>>

\* the locals of a call that has returned
Reset ==
    /\ pc' = "idle"
    /\ items' = << >>
    /\ build_id' = "none"
    /\ fetch' = "none"
    /\ comparison_results' = << >>
    /\ coles_total' = 0
    /\ woolies_total' = 0
    /\ searches' = NoSearches
    /\ parsed' = NotParsed
    /\ data' = NoData
    /\ coles_result' = None

\* the iteration putting its row in front of the rows so far
CompareStep_prepend(body, s, coles_data) ==
    IF body.raised
    THEN /\ ret' = CompareFailed(CompareEnv(fetch, TRUE), s)
         /\ Reset
    ELSE /\ comparison_results' = <<body.row>> \o comparison_results
         /\ coles_total' = body.coles_total
         /\ woolies_total' = body.woolies_total
         /\ searches' = s
         /\ parsed' = body.parsed
         /\ data' = coles_data
         /\ coles_result' = body.coles_result
         /\ UNCHANGED <<pc, items, build_id, fetch, ret>>

\* the rest of an iteration, given the loop body's outcome, the searches
\* issued so far and the response _search_coles read
CompareStep(body, s, coles_data) ==
    IF body.raised
    THEN /\ ret' = CompareFailed(CompareEnv(fetch, TRUE), s)
         /\ Reset
    ELSE /\ comparison_results' = Append(comparison_results, body.row)
         /\ coles_total' = body.coles_total
         /\ woolies_total' = body.woolies_total
         /\ searches' = s
         /\ parsed' = body.parsed
         /\ data' = coles_data
         /\ coles_result' = body.coles_result
         /\ UNCHANGED <<pc, items, build_id, fetch, ret>>

\* one iteration of the loop: parse, both searches, normalize, accumulate.
\* A search under a build identifier the site no longer serves fails.
CompareItem ==
    /\ pc = "loop"
    /\ Len(comparison_results) < Len(items)
    /\ \E cr \in ColesResponses, wr \in WoolResponses :
         /\ build_id # upstreamBuildId => cr.status = "error"
         /\ CompareStep(
                LoopBody(items[Len(comparison_results) + 1], search_coles(cr),
                         search_woolworths(wr), coles_total, woolies_total),
                [issued |-> searches.issued + 2,
                 errors |-> searches.errors
                            + (IF cr.status = "error" THEN 1 ELSE 0)
                            + (IF wr.status = "error" THEN 1 ELSE 0)],
                cr)
    /\ UNCHANGED <<serverVars, buildIdCache, upstreamBuildId>>

\* after the loop: the summary and the return
CompareFinish ==
    /\ pc = "loop"
    /\ Len(comparison_results) = Len(items)
    /\ ret' = CompareSucceeded(items, comparison_results, coles_total,
                               woolies_total, CompareEnv(fetch, FALSE),
                               searches)
    /\ Reset
    /\ UNCHANGED <<serverVars, buildIdCache, upstreamBuildId>>


\* the retailer deploys a new build: the landing page embeds a new buildId
Rotate ==
    /\ serverPc = "running"
    /\ upstreamBuildId = "b1"
    /\ upstreamBuildId' = "b2"
    /\ UNCHANGED <<serverVars, buildIdCache, pc, locals, ret>>

Next ==
    \/ ImportPackage
    \/ RegisterTool
    \/ Run
    \/ CreateEvent
    \/ CreateNote
    \/ CreateList
    \/ GetRecipe
    \/ CompareStart
    \/ CompareItem
    \/ CompareFinish
    \/ Rotate

Spec == Init /\ [][Next]_vars

\* ------------------------------------------------------------------------
\* Properties of compare_grocery_prices
\* ------------------------------------------------------------------------
\* the most recent call was compare_grocery_prices and it has returned
CompareReturned ==
    ret.tool = "compare_grocery_prices" /\ ret.kind = "mapping"

CompareSuccess == CompareReturned /\ ret.status = "success"

\* the sum of one retailer's prices over the rows where its quote is there
RECURSIVE SumColes(_)
SumColes(rows) ==
    IF rows = << >> THEN 0
    ELSE (IF Head(rows).coles.some THEN Head(rows).coles.q.price.v ELSE 0)
         + SumColes(Tail(rows))

RECURSIVE SumWoolworths(_)
SumWoolworths(rows) ==
    IF rows = << >> THEN 0
    ELSE (IF Head(rows).woolworths.some
          THEN Head(rows).woolworths.q.price.v ELSE 0)
         + SumWoolworths(Tail(rows))

\* C1: when the build-identifier fetch fails (connection error, HTTP error
\* status, no __NEXT_DATA__ script, no buildId), compare_grocery_prices
\* returns status "failed" with a message and nothing else: no rows, no
\* summary; and that invocation never enters the loop that issues the
\* retailer searches, so it issues none.
C1_FetchFailureAborts ==
    /\ fetch \notin FetchFailures
    /\ (ret.tool = "compare_grocery_prices" /\ ret.env \in FetchFailures) =>
          /\ ret.kind = "mapping"
          /\ ret.status = "failed"
          /\ ret.keys = {"status", "message"}
          /\ ret.results = << >>
          /\ ret.summary = NoSummary
          /\ ret.searches = 0

\* a call whose fetch found the page without a buildId has returned
C1_Witness ==
    /\ CompareReturned
    /\ ret.env = "no buildId"
    /\ ret.status = "failed"
    /\ buildIdCache = "none"

\* C2: once the build identifier is there, whatever a retailer answers (an
\* error, a malformed body, a price that is not a number) the comparison
\* returns status "success" with a row for every item.
C2_RetailerFailureNeverFails ==
    (CompareReturned /\ ret.env \notin FetchFailures) =>
        /\ ret.status = "success"
        /\ Len(ret.results) = ret.items_compared

\* a retailer's price that is not a number has failed the whole comparison
C2_Witness ==
    /\ CompareReturned
    /\ ret.env = "TypeError"
    /\ ret.status = "failed"
    /\ ret.searches > 0

\* C3 as stated: in a success result the verdict is present exactly when
\* both totals the summary reports are strictly positive; when a reported
\* total is zero the verdict is absent and savings is 0.
C3_VerdictIffReportedTotalsPositive ==
    CompareSuccess =>
        /\ ret.summary.cheaper_store # "None"
              <=> (ret.summary.coles_total > 0
                   /\ ret.summary.woolworths_total > 0)
        /\ (ret.summary.coles_total = 0 \/ ret.summary.woolworths_total = 0)
              => (ret.summary.cheaper_store = "None"
                  /\ ret.summary.savings = 0)

\* C3 amended: in a success result the verdict is present exactly when both
\* accumulated totals (the sums of the rows' prices, before rounding) are
\* strictly positive; otherwise the verdict is absent and savings is 0.
C3_VerdictIffAccumulatedTotalsPositive ==
    CompareSuccess =>
        /\ ret.summary.cheaper_store # "None"
              <=> (SumColes(ret.results) > 0
                   /\ SumWoolworths(ret.results) > 0)
        /\ (SumColes(ret.results) = 0 \/ SumWoolworths(ret.results) = 0)
              => (ret.summary.cheaper_store = "None"
                  /\ ret.summary.savings = 0)

\* a positive total that the summary reports as 0.0, with a verdict
C3_Witness ==
    /\ CompareSuccess
    /\ SumColes(ret.results) > 0
    /\ ret.summary.coles_total = 0
    /\ ret.summary.cheaper_store # "None"

\* C4: in a success result with a verdict, the verdict names the retailer
\* whose total is strictly lower than the other's, and savings is the
\* absolute difference of the totals rounded to two decimals.
C4_VerdictNamesStrictlyLower ==
    (CompareSuccess /\ ret.summary.cheaper_store # "None") =>
        /\ ret.summary.cheaper_store = "Coles"
              => SumColes(ret.results) < SumWoolworths(ret.results)
        /\ ret.summary.cheaper_store = "Woolworths"
              => SumWoolworths(ret.results) < SumColes(ret.results)
        /\ ret.summary.savings =
              Round2(Abs(SumColes(ret.results) - SumWoolworths(ret.results)))

\* equal positive totals, and a verdict all the same
C4_Witness ==
    /\ CompareSuccess
    /\ SumColes(ret.results) > 0
    /\ SumColes(ret.results) = SumWoolworths(ret.results)
    /\ ret.summary.cheaper_store = "Woolworths"
    /\ ret.summary.savings = 0

\* C5: in a success result each retailer's reported total is the sum, rounded
\* to two decimals, of that retailer's prices over exactly the rows where its
\* quote is there.
C5_TotalsAreRowSums ==
    CompareSuccess =>
        /\ ret.summary.coles_total = Round2(SumColes(ret.results))
        /\ ret.summary.woolworths_total = Round2(SumWoolworths(ret.results))

\* two rows; Coles quoted both times with a scaled price in the second row,
\* Woolworths quoted only once
C5_Witness ==
    /\ CompareSuccess
    /\ Len(ret.results) = 2
    /\ ret.results[1].coles.some
    /\ ret.results[2].coles.some
    /\ ret.results[2].coles.q.calculated_for
    /\ ~ret.results[1].woolworths.some
    /\ ret.results[2].woolworths.some
    /\ ret.summary.coles_total # ret.summary.woolworths_total

\* the canonical names of the item strings a caller passes here
ExpectedName(item) ==
    IF item = Item_ab500g THEN <<"a", "b">> ELSE <<"c", "d">>

\* C6: when compare_grocery_prices returns a success result, it has one row
\* per input item, in input order: row i carries the raw text and the
\* canonical name of item i, whichever quotes are absent.
C6_OneRowPerItemInOrder ==
    [][(pc = "loop" /\ ret'.kind = "mapping" /\ ret'.status = "success") =>
          /\ Len(ret'.results) = Len(items)
          /\ ret'.items_compared = Len(items)
          /\ \A i \in 1..Len(items) :
                /\ ret'.results[i].item = items[i]
                /\ ret'.results[i].item_name = ExpectedName(items[i])]_vars

\* two different items, the first without a Coles quote, the second
\* without a Woolworths quote
C6_Witness ==
    /\ CompareSuccess
    /\ Len(ret.results) = 2
    /\ ret.results[1].item = Item_cd
    /\ ret.results[2].item = Item_ab500g
    /\ ~ret.results[1].coles.some
    /\ ~ret.results[2].woolworths.some

\* ------------------------------------------------------------------------
\* Properties of the server and of every tool
\* ------------------------------------------------------------------------
\* the tools of the external interface
ExternalInterface ==
    {"compare_grocery_prices", "create_event", "create_note", "create_list",
     "get_recipe"}

\* C7: once the server is initialized and running, every tool of the
\* external interface is registered with FastMCP: compare_grocery_prices,
\* create_event, create_note, create_list and get_recipe.
C7_AllToolsRegistered ==
    serverPc = "running" => ExternalInterface \subseteq registered

\* the server runs with every tool _register_tools constructs, and
\* compare_grocery_prices is not among the registered methods
C7_Witness ==
    /\ serverPc = "running"
    /\ tools = RegisterOrder
    /\ registered = ExternalInterface \ {"compare_grocery_prices"}

ShellTools == {"create_event", "create_note", "create_list"}

\* the most recent call met a failure of its collaborator
ShellFailed == ret.tool \in ShellTools /\ ret.env # "returncode 0"

RecipeFailed == ret.tool = "get_recipe" /\ ret.env # "response"

FailedMapping ==
    /\ ret.kind = "mapping"
    /\ ret.status = "failed"
    /\ ret.keys = {"status", "message"}

\* after a failed call every tool can still be called and can succeed
\* (get_recipe when the credential is there; compare_grocery_prices gets
\* past its build-identifier fetch)
LaterCallsCanSucceed ==
    /\ ENABLED (CreateEvent /\ ret'.status = "success")
    /\ ENABLED (CreateNote /\ ret'.status = "success")
    /\ ENABLED (CreateList /\ ret'.status = "success")
    /\ api_key => ENABLED (GetRecipe /\ ret'.text = "json")
    /\ ENABLED (CompareStart /\ pc' = "loop")

FixedPackagePrice(cell) ==
    cell.some => (~cell.q.calculated_for /\ cell.q.note = "fixed")

NotFlaggedWeighted(cell) == cell.some /\ cell.q.is_weighted # "True"

\* C9: in every row, for either retailer: if the item carried no requested
\* weight, or the quote is not flagged weighted, the quote keeps its
\* original price (no per-kilogram scaling) and carries the note that a
\* fixed package price was used.
C9_UnweightedKeepsPackagePrice ==
    CompareSuccess =>
        \A i \in 1..Len(ret.results) :
            /\ (~ret.results[i].requested_amount.set
                \/ NotFlaggedWeighted(ret.results[i].coles))
                  => FixedPackagePrice(ret.results[i].coles)
            /\ (~ret.results[i].requested_amount.set
                \/ NotFlaggedWeighted(ret.results[i].woolworths))
                  => FixedPackagePrice(ret.results[i].woolworths)

\* a Woolworths quote, which carries no weighted flag, scaled per kilogram
C9_Witness ==
    /\ CompareSuccess
    /\ Len(ret.results) = 1
    /\ ret.results[1].woolworths.some
    /\ ret.results[1].woolworths.q.is_weighted = "absent"
    /\ ret.results[1].woolworths.q.calculated_for
    /\ ret.results[1].woolworths.q.price = Num(5750)

\* ------------------------------------------------------------------------
\* One pass of the loop of compare_grocery_prices over a wider range of
\* items and retailer answers: an invocation of one item that has obtained
\* its build identifier.
\* ------------------------------------------------------------------------
Item_x0g == <<"x", " ", "0", "g">>

Item_ab2kg == <<"a", "b", " ", "2", "k", "g">>

RowItems == {Item_ab500g, Item_cd, Item_x0g, Item_ab2kg}

RowColesResponses ==
    ColesResponses \cup
    {\* a weighted product without a comparable price
     ColesOk(<<ColesEntry("PRODUCT", "bulk", TRUE, << >>, Num(3000))>>)}

RowWoolResponses ==
    WoolResponses \cup
    {\* a product whose CupString is null
     WoolOk(<<<<WoolProduct("jar", "<absent>", Num(2500), << >>,
                            "null")>>>>)}

\* inside compare_grocery_prices, before the first pass of the loop
RowInit ==
    /\ installed = SourceModules \cup {"calendar_tool"}
    /\ serverPc = "running"
    /\ tools = RegisterOrder
    /\ registered = {ToolMethod(RegisterOrder[k]) :
                        k \in 1..Len(RegisterOrder)}
    /\ api_key = FALSE
    /\ buildIdCache = "b1"
    /\ upstreamBuildId = "b1"
    /\ pc = "loop"
    /\ items \in {<<item>> : item \in RowItems}
    /\ build_id = "b1"
    /\ fetch = "ok"
    /\ comparison_results = << >>
    /\ coles_total = 0
    /\ woolies_total = 0
    /\ searches = NoSearches
    /\ parsed = NotParsed
    /\ data = NoData
    /\ coles_result = None
    /\ ret = Pending

\* one iteration of the loop, the retailers answering from the wider range
NormalizeRow ==
    /\ pc = "loop"
    /\ Len(comparison_results) < Len(items)
    /\ \E cr \in RowColesResponses, wr \in RowWoolResponses :
         CompareStep(
             LoopBody(items[Len(comparison_results) + 1], search_coles(cr),
                      search_woolworths(wr), coles_total, woolies_total),
             [issued |-> searches.issued + 2,
              errors |-> searches.errors
                         + (IF cr.status = "error" THEN 1 ELSE 0)
                         + (IF wr.status = "error" THEN 1 ELSE 0)],
             cr)
    /\ UNCHANGED <<serverVars, buildIdCache, upstreamBuildId>>

RowNext ==
    \/ NormalizeRow
    \/ CompareFinish

SpecRow == RowInit /\ [][RowNext]_vars

\* what C10 states of a quote whose item carries a weight: the price scaled
\* from the per-kilogram price of the label, or the original price and a
\* note
ScaledAsRequested(cell, per_kg_match, req) ==
    IF per_kg_match.found
    THEN cell.q.price =
            Num(CalculatedPrice(per_kg_match.value,
                                WeightInKg(req.weight, req.unit)))
    ELSE ~cell.q.calculated_for /\ cell.q.note # "none"

RowScaledAsRequested(row, req) ==
    /\ (row.coles.some /\ row.coles.q.is_weighted = "True"
        /\ req.weight.has)
          => ScaledAsRequested(row.coles,
                               PerKgSearch(row.coles.q.unit,
                                           <<"p", "e", "r">>, FALSE),
                               req)
    /\ (row.woolworths.some /\ req.weight.has)
          => ScaledAsRequested(row.woolworths,
                               PerKgSearch(row.woolworths.q.unit, <<"/">>,
                                           TRUE),
                               req)

\* C10: for a weighted quote and an item with a requested weight: when the
\* retailer's per-kilogram pattern is found in the unit label, the row's
\* price is the per-kilogram price times the weight in kilograms (grams
\* divided by 1000, kilograms unchanged), rounded to two decimals; when it
\* is not found, the price is the original one and a note is there.
C10_WeightedQuoteScaledByWeight ==
    CompareSuccess =>
        \A i \in 1..Len(ret.results) :
            RowScaledAsRequested(ret.results[i],
                                 parse_item_with_weight(ret.results[i].item))

\* the item "x 0g" carries the weight 0 g; its weighted Coles quote at
\* $11.50 per 1kg is reported at 11.50, unscaled and without a note
C10_Witness ==
    /\ CompareSuccess
    /\ ret.results[1].item = Item_x0g
    /\ ~ret.results[1].requested_amount.set
    /\ ret.results[1].coles.some
    /\ ret.results[1].coles.q.is_weighted = "True"
    /\ ret.results[1].coles.q.unit = Label_per1kg
    /\ ret.results[1].coles.q.price = Num(11500)
    /\ ret.results[1].coles.q.note = "none"

\* ------------------------------------------------------------------------
\* The parser over a wide range of item strings: an invocation of one item
\* that has obtained its build identifier, both retailers unreachable, so
\* that the pass of the loop shows the parse alone.  Item strings are one
\* line of text over letters, digits, the point and the blank.
\* ------------------------------------------------------------------------
MaxChars == 4

ParseAlphabet == {"a", " ", "1", ".", "g", "K", "L"}

\* every text of at most MaxChars characters
ShortTexts == UNION {[1..n -> ParseAlphabet] : n \in 0..MaxChars}

Item_garlic100g == <<"g", "a", "r", "l", "i", "c", " ", "1", "0", "0", "g">>

Item_milk3L == <<"m", "i", "l", "k", " ", "3", "L">>

Item_ab_1p5_Kg == <<" ", "a", "b", " ", " ", "1", ".", "5", " ", "K", "g", " ">>

Item_a12p50kG == <<"a", " ", "1", "2", ".", "5", "0", "k", "G">>

Item_a1_2g == <<"a", " ", "1", " ", "2", "g">>

Item_a1p5p5g == <<"a", " ", "1", ".", "5", ".", "5", "g">>

Item_a1kgs == <<"a", " ", "1", "k", "g", "s">>

LongTexts ==
    {Item_garlic100g, Item_milk3L, Item_ab_1p5_Kg, Item_a12p50kG, Item_a1_2g,
     Item_a1p5p5g, Item_a1kgs, Item_ab500g, Item_ab2kg, Item_x0g, Item_cd}

ParseInputs == ShortTexts \cup LongTexts

ParseInit ==
    /\ installed = SourceModules \cup {"calendar_tool"}
    /\ serverPc = "running"
    /\ tools = RegisterOrder
    /\ registered = {ToolMethod(RegisterOrder[k]) :
                        k \in 1..Len(RegisterOrder)}
    /\ api_key = FALSE
    /\ buildIdCache = "b1"
    /\ upstreamBuildId = "b1"
    /\ pc = "loop"
    /\ items \in {<<item>> : item \in ParseInputs}
    /\ build_id = "b1"
    /\ fetch = "ok"
    /\ comparison_results = << >>
    /\ coles_total = 0
    /\ woolies_total = 0
    /\ searches = NoSearches
    /\ parsed = NotParsed
    /\ data = NoData
    /\ coles_result = None
    /\ ret = Pending

\* one iteration of the loop, both searches failing
ParseItem ==
    /\ pc = "loop"
    /\ Len(comparison_results) < Len(items)
    /\ CompareStep(
           LoopBody(items[Len(comparison_results) + 1],
                    search_coles(ColesError), search_woolworths(WoolError),
                    coles_total, woolies_total),
           [issued |-> searches.issued + 2, errors |-> searches.errors + 2],
           ColesError)
    /\ UNCHANGED <<serverVars, buildIdCache, upstreamBuildId>>

ParseNext ==
    \/ ParseItem
    \/ CompareFinish

SpecParse == ParseInit /\ [][ParseNext]_vars

\* a number as the claim writes it: digits, optionally a point and digits
IsNumberText(t) ==
    \E d \in 1..Len(t) :
        /\ \A k \in 1..d : t[k] \in Digits
        /\ \/ d = Len(t)
           \/ /\ d + 2 <= Len(t)
              /\ t[d + 1] = "."
              /\ \A k \in (d + 2)..Len(t) : t[k] \in Digits

IsBlank(t) == \A k \in 1..Len(t) : t[k] \in Spaces

IsUnitText(t) == LowerStr(t) \in {<<"g">>, <<"k", "g">>}

\* the ways to read t as <name> <number>(g|kg): the name ends at f[1], blanks
\* end at f[2], the number ends at f[3], blanks (if any) end at f[4] and the
\* unit runs to the end of t
WeightForms(t) ==
    {f \in (1..Len(t)) \X (1..Len(t)) \X (1..Len(t)) \X (1..Len(t)) :
        /\ f[1] < f[2] /\ f[2] < f[3] /\ f[3] <= f[4] /\ f[4] < Len(t)
        /\ IsBlank(SubSeq(t, f[1] + 1, f[2]))
        /\ IsNumberText(SubSeq(t, f[2] + 1, f[3]))
        /\ IsBlank(SubSeq(t, f[3] + 1, f[4]))
        /\ IsUnitText(SubSeq(t, f[4] + 1, Len(t)))}

\* the value of a number text, as a fraction
NumberValue(t) ==
    IF \E k \in 1..Len(t) : t[k] = "."
    THEN Decimal(SubSeq(t, 1, (CHOOSE k \in 1..Len(t) : t[k] = ".") - 1),
                 SubSeq(t, (CHOOSE k \in 1..Len(t) : t[k] = ".") + 1, Len(t)))
    ELSE Decimal(t, << >>)

ParsedForm(t, f, p) ==
    /\ p.item_name = Strip(SubSeq(t, 1, f[1]))
    /\ p.weight.has
    /\ p.weight.num * NumberValue(SubSeq(t, f[2] + 1, f[3])).den
         = NumberValue(SubSeq(t, f[2] + 1, f[3])).num * p.weight.den
    /\ p.unit = (IF Len(t) - f[4] = 1 THEN "g" ELSE "kg")

ParsedAsClaimed(t, p) ==
    /\ \A f \in WeightForms(t) : ParsedForm(t, f, p)
    /\ WeightForms(t) = {} =>
          (p.item_name = t /\ ~p.weight.has /\ p.unit = "none")
    /\ p.weight.has <=> p.unit # "none"

FetchFailed == CompareReturned /\ ret.env \in FetchFailures

\* what a step may do once the build identifier is memoized: the memo is
\* kept, and a call that starts issues no fetch
MemoKept ==
    /\ buildIdCache' = buildIdCache
    /\ pc = "idle" => fetch' = "none"
    /\ ~FetchFailed'

\* C12: once a fetch has succeeded the memoized build identifier never
\* changes, no later invocation fetches the landing page again (none starts
\* with a fetch, none returns a fetch failure), and every invocation in its
\* loop searches Coles under the memoized identifier, whatever identifier
\* the site serves by then.
C12_BuildIdWrittenOnce ==
    /\ [](pc = "loop" => (buildIdCache # "none" /\ build_id = buildIdCache))
    /\ [][buildIdCache # "none" => MemoKept]_vars

\* a later invocation has searched under the memoized identifier b1, without
\* a fetch, after the site moved to b2
C12_Witness ==
    /\ buildIdCache = "b1"
    /\ upstreamBuildId = "b2"
    /\ pc = "loop"
    /\ fetch = "none"
    /\ build_id = "b1"
    /\ searches.issued >= 2
    /\ data = ColesError

\* ------------------------------------------------------------------------
\* _search_coles over a wider range of responses: results of several
\* entries, with and without a price.
\* ------------------------------------------------------------------------
Label_each == <<"e", "a", "c", "h">>

\* a product entry without pricing.now, then a priced product
Coles_unpriced_then_priced ==
    ColesOk(<<ColesEntry("PRODUCT", "first", FALSE, << >>, Null),
              ColesEntry("PRODUCT", "second", FALSE, << >>, Num(2500))>>)

SearchColesResponses ==
    RowColesResponses \cup
    {Coles_unpriced_then_priced,
     \* two priced products
     ColesOk(<<ColesEntry("PRODUCT", "first", TRUE, Label_per1kg, Num(3000)),
               ColesEntry("PRODUCT", "second", FALSE, << >>, Num(2500))>>),
     \* a single product without a price
     ColesOk(<<ColesEntry("PRODUCT", "unpriced", FALSE, << >>, Null)>>),
     \* no entries
     ColesOk(<< >>),
     \* a weighted product whose comparable holds no dollar amount
     ColesOk(<<ColesEntry("PRODUCT", "each", TRUE, Label_each, Num(1000))>>)}

SearchWoolResponses ==
    {WoolError,
     WoolOk(<<<<WoolProduct("bag", "<absent>", Num(2500), Label_slash1KG,
                            "str")>>>>)}

SearchInit ==
    /\ installed = SourceModules \cup {"calendar_tool"}
    /\ serverPc = "running"
    /\ tools = RegisterOrder
    /\ registered = {ToolMethod(RegisterOrder[k]) :
                        k \in 1..Len(RegisterOrder)}
    /\ api_key = FALSE
    /\ buildIdCache = "b1"
    /\ upstreamBuildId = "b1"
    /\ pc = "loop"
    /\ items \in {<<item>> : item \in RowItems}
    /\ build_id = "b1"
    /\ fetch = "ok"
    /\ comparison_results = << >>
    /\ coles_total = 0
    /\ woolies_total = 0
    /\ searches = NoSearches
    /\ parsed = NotParsed
    /\ data = NoData
    /\ coles_result = None
    /\ ret = Pending

\* one iteration of the loop, Coles answering from the wider range
SearchRow ==
    /\ pc = "loop"
    /\ Len(comparison_results) < Len(items)
    /\ \E cr \in SearchColesResponses, wr \in SearchWoolResponses :
         CompareStep(
             LoopBody(items[Len(comparison_results) + 1], search_coles(cr),
                      search_woolworths(wr), coles_total, woolies_total),
             [issued |-> searches.issued + 2,
              errors |-> searches.errors
                         + (IF cr.status = "error" THEN 1 ELSE 0)
                         + (IF wr.status = "error" THEN 1 ELSE 0)],
             cr)
    /\ UNCHANGED <<serverVars, buildIdCache, upstreamBuildId>>

SearchNext ==
    \/ SearchRow
    \/ CompareFinish

SpecSearch == SearchInit /\ [][SearchNext]_vars

\* the index of the first entry tagged as a product (0: there is none)
FirstProduct(results) ==
    IF \E k \in 1..Len(results) : results[k].type = "PRODUCT"
    THEN CHOOSE k \in 1..Len(results) :
             /\ results[k].type = "PRODUCT"
             /\ \A j \in 1..(k - 1) : results[j].type # "PRODUCT"
    ELSE 0

\* the quote C13 describes for an entry: the leading decimal of a weighted
\* entry's comparable price, flagged weighted; otherwise the direct price,
\* flagged as the entry is
QuoteOfEntry(entry) ==
    IF entry.isWeighted /\ PriceSearch(entry.comparable).found
    THEN Quote(entry.description,
               Num(ToMills(PriceSearch(entry.comparable).value)),
               entry.comparable, "str", "True")
    ELSE Quote(entry.description, entry.now, entry.comparable, "str",
               IF entry.isWeighted THEN "True" ELSE "False")

Searched == pc = "loop" /\ Len(comparison_results) >= 1

\* C13: whenever _search_coles returns a quote, the response holds an entry
\* tagged as a product and the quote is the one built from the first such
\* entry: from its comparable price, flagged weighted, when it is weighted
\* and the comparable holds a dollar amount, otherwise from its direct price
\* with the entry's own flag; never from a later product entry.
C13_QuoteFromFirstProduct ==
    (Searched /\ coles_result.some) =>
        /\ FirstProduct(data.results) # 0
        /\ coles_result.q = QuoteOfEntry(data.results[FirstProduct(data.results)])

\* the first product entry carries no price and the quote returned is the
\* second product's
C13_Witness ==
    /\ Searched
    /\ data = Coles_unpriced_then_priced
    /\ coles_result.some
    /\ coles_result.q.description = "second"
    /\ coles_result.q.price = Num(2500)

\* what holds instead: the quote is built from the first product entry that
\* yields a price, and no quote is returned when no product entry does
QuoteFromFirstPricedProduct ==
    Searched =>
        IF \E k \in 1..Len(data.results) : ColesEntryQuote(data.results[k]).some
        THEN /\ coles_result.some
             /\ \E k \in 1..Len(data.results) :
                    /\ data.results[k].type = "PRODUCT"
                    /\ coles_result.q = QuoteOfEntry(data.results[k])
                    /\ \A j \in 1..(k - 1) :
                           \/ data.results[j].type # "PRODUCT"
                           \/ /\ data.results[j].now = Null
                              /\ ~(data.results[j].isWeighted
                                   /\ PriceSearch(data.results[j].comparable).found)
        ELSE ~coles_result.some
====
